---- MODULE Spec2Model ----
(***************************************************************************)
(* The package-acquisition pipeline of `uv pip download` (pip_download,    *)
(* crates/uv/src/commands/pip/download.rs) and `uv pip wheel` (pip_wheel,  *)
(* crates/uv/src/commands/pip/wheel.rs): read the requirement sources,     *)
(* derive the hash strategies, resolve, prepare the distributions          *)
(* concurrently, and materialize the prepared wheels in the output         *)
(* directory.  One behaviour is one invocation, optionally followed by a   *)
(* second invocation with the same inputs on the same output directory.    *)
(***************************************************************************)
EXTENDS Naturals, Integers, Sequences, FiniteSets, TLC

\* ------------------------------------------------------------------ bounds
MaxDists == 3
MaxLimit == 2
MaxNames == 2
MaxWalk == 2
MaxLen == 2
MaxQuery == 1
MaxTicks == 2

Dists == 1..MaxDists
\* Requester 0 is the build dispatch, which shares the in-flight registry.
Dispatch == 0
Reqs == {Dispatch} \cup Dists

VARIABLES
    mode,           \* "download" | "wheel": which operation runs
    missing,        \* which listed input file does not exist ("none" if all exist)
    hash_checking,  \* Option<HashCheckingMode>: "None" | "Require" | "Verify"
    concurrency,    \* concurrency.downloads
    run,            \* 1 for the first invocation, 2 for the repeated one
    pc,             \* position of the invocation in the function body
    result,         \* "none" | "Success" | "Failure" | "Err"
    errKind,        \* kind of the error that ended the run, "none" otherwise
    work,           \* network / build work started in this run
    hasher,         \* hash strategy for resolution and preparation
    build_hasher,   \* hash strategy for build-time dependencies
    handed,         \* the hash strategy each consumer was constructed with
    resolved,       \* whether a resolution graph exists in this run
    resolution,     \* Dists -> "absent" | "Installable" | "Installed"
    distributions,  \* Vec<Arc<Dist>> handed to the preparer
    auxKey,         \* key requested by the build dispatch (0: none)
    task,           \* Reqs -> state of the requester in the preparer
    in_flight,      \* Dists -> "none" | "pending" | "ok" | "err"
    fetches,        \* Dists -> number of fetch/build executions of the key
    completed,      \* distributions prepared successfully, in completion order
    errors,         \* distributions whose preparation failed, in completion order
    prepared,       \* the Vec<CachedDist> returned by prepare
    idx,            \* loop position of the materialization loop
    downloaded_count,
    built_wheels,   \* Vec<String> of filenames (wheel mode)
    stderr,         \* the lines printed so far in this run
    dirExists,      \* whether the output directory exists
    disk,           \* filename -> file in the output directory
    disk0,          \* the output directory when this run started
    first,          \* what the first invocation left behind (set by Rerun)
    call,           \* a helper function under test with its arguments
    ret,            \* helper function name -> what it returned for the call
    view,           \* the PackagesView of the package browser
    now,            \* Instant::now(), in seconds since the window opened
    lookup,         \* the request to PyPI the view waits for (NoLookup: none)
    command         \* the child process the view waits for (NoCommand: none)

vars == <<mode, missing, hash_checking, concurrency, run, pc, result,
          errKind, work, hasher, build_hasher, resolved, resolution, distributions,
          auxKey, task, in_flight, fetches, completed, errors, prepared, idx,
          downloaded_count, built_wheels, stderr, dirExists, disk, disk0, first,
          handed, call, ret, view, now, lookup, command>>

inputs == <<mode, missing, hash_checking, concurrency>>
fnVars == <<call, ret>>
guiVars == <<view, now, lookup, command>>
prepVars == <<auxKey, task, in_flight, fetches, completed, errors>>
outVars == <<idx, downloaded_count, built_wheels, stderr>>
fsVars == <<dirExists, disk, disk0>>
hashVars == <<hasher, build_hasher>>
graphVars == <<resolved, resolution, distributions>>

\* --------------------------------------------------------------- filenames
\* Mutant: two distributions of the graph get the same filename.
FilenameAmbiguous(d) == IF d % 2 = 1 THEN <<2, 1>> ELSE <<1, d>>

\* wheel.filename().to_string(): a filename is a sequence of characters
\* (small naturals).  The order of filenames differs from the order of the
\* distributions in the graph.
Filename(d) == IF d % 2 = 1 THEN <<2, d>> ELSE <<1, d>>

FileNames == {Filename(d) : d \in Dists}

\* Ord on strings: lexicographic comparison of the characters.
RECURSIVE LexLess(_, _)
LexLess(a, b) ==
    IF b = <<>> THEN FALSE
    ELSE IF a = <<>> THEN TRUE
    ELSE IF Head(a) # Head(b) THEN Head(a) < Head(b)
    ELSE LexLess(Tail(a), Tail(b))

LexLeq(a, b) == a = b \/ LexLess(a, b)

\* Insert the string x in a sorted sequence of strings, after its equals.
RECURSIVE InsertString(_, _)
InsertString(x, s) ==
    IF s = <<>> THEN <<x>>
    ELSE IF LexLess(x, Head(s)) THEN <<x>> \o s
    ELSE <<Head(s)>> \o InsertString(x, Tail(s))

\* built_wheels.sort(): the stable sort of a Vec<String>.
RECURSIVE SortStrings(_)
SortStrings(s) ==
    IF s = <<>> THEN <<>>
    ELSE InsertString(s[Len(s)], SortStrings(SubSeq(s, 1, Len(s) - 1)))

\* a.filename().cmp(b.filename()) = Less: the order of the filenames of two
\* prepared wheels.
FilenameLess(a, b) == LexLess(Filename(a), Filename(b))

\* Insert the artifact x in a sequence of artifacts sorted by filename.
RECURSIVE InsertByFilename(_, _)
InsertByFilename(x, s) ==
    IF s = <<>> THEN <<x>>
    ELSE IF FilenameLess(x, Head(s)) THEN <<x>> \o s
    ELSE <<Head(s)>> \o InsertByFilename(x, Tail(s))

\* Mutant: the sort is left out.
SortByFilenameNone(s) == s

\* prepared.sort_by(|a, b| a.filename().cmp(b.filename())).
RECURSIVE SortByFilename(_)
SortByFilename(s) ==
    IF s = <<>> THEN <<>>
    ELSE InsertByFilename(s[Len(s)], SortByFilename(SubSeq(s, 1, Len(s) - 1)))

IsSorted(s) == \A i \in 1..Len(s) : \A j \in 1..Len(s) : i < j => LexLeq(s[i], s[j])

Range(s) == {s[i] : i \in 1..Len(s)}
SeqsUpTo(S, n) == UNION {[1..k -> S] : k \in 0..n}

\* ------------------------------------------------------- order of the steps
\* Mutant: the output directory is created after the distributions are extracted.
DownloadOrderDirLate ==
    << "read_requirements", "read_constraints", "find_python", "hasher",
       "flat_index", "build_hasher", "resolve", "extract", "create_dir",
       "prepare", "sort", "materialize", "summary", "done" >>

\* Mutant: the required hashes are collected after the flat indexes are fetched.
DownloadOrderHasherLate ==
    << "read_requirements", "read_constraints", "find_python", "flat_index",
       "hasher", "build_hasher", "resolve", "create_dir", "extract",
       "prepare", "sort", "materialize", "summary", "done" >>

\* The statements of pip_download, in the order of the function body.
DownloadOrder ==
    << "read_requirements", "read_constraints", "find_python", "hasher",
       "flat_index", "build_hasher", "resolve", "create_dir", "extract",
       "prepare", "sort", "materialize", "summary", "done" >>

\* Mutant: the output directory is created before the build constraints are read.
WheelOrderDirEarly ==
    << "read_requirements", "create_dir", "read_constraints", "find_python",
       "hasher", "flat_index", "build_hasher", "resolve", "extract",
       "prepare", "materialize", "sort", "summary", "done" >>

\* The statements of pip_wheel, in the order of the function body.
WheelOrder ==
    << "read_requirements", "read_constraints", "create_dir", "find_python",
       "hasher", "flat_index", "build_hasher", "resolve", "extract",
       "prepare", "materialize", "sort", "summary", "done" >>

Order(m) == IF m = "download" THEN DownloadOrder ELSE WheelOrder

Position(m, s) == CHOOSE i \in 1..Len(Order(m)) : Order(m)[i] = s

\* The statement that follows statement s.
NextStep(m, s) == Order(m)[Position(m, s) + 1]

\* Mutant: the error is recorded and the function goes on.
FailAndGoOn(kind) ==
    /\ pc' = pc
    /\ result' = "Err"
    /\ errKind' = kind

\* `?` on an Err: the function returns the error.
Fail(kind) ==
    /\ pc' = "done"
    /\ result' = "Err"
    /\ errKind' = kind

Continue ==
    /\ pc' = NextStep(mode, pc)
    /\ UNCHANGED <<result, errKind>>

\* The process exit code: 0 success, 1 failed operation, 2 error.
ExitCode ==
    CASE result = "Success" -> 0
      [] result = "Failure" -> 1
      [] result = "Err" -> 2
      [] OTHER -> -1

\* ------------------------------------------------------------ hash strategy
\* HashStrategy::from_requirements: the strategy carries the mode it was
\* built with.
FromRequirements(m) == m

\* Require mode rejects a requirement that declares no hashes.
FromRequirementsFails(m, hashed) == m = "Require" /\ ~hashed

\* Whether a consumer constructed with the strategy checks the hashes of
\* the packages it handles.
HashChecked(strategy) == strategy \in {"Require", "Verify"}

\* Mutant: an absent mode falls back to Verify.
HasherDefaultVerify(hc) == FromRequirements(IF hc = "None" THEN "Verify" ELSE hc)

\* let hasher = if let Some(hash_checking) = hash_checking { .. } else { None }
Hasher(hc) == IF hc # "None" THEN FromRequirements(hc) ELSE "None"

\* Mutant: the build constraints are checked under the global mode.
BuildHasherSameMode(hc) == Hasher(hc)

\* let build_hasher = if hash_checking.is_some() { .. Verify .. } else { None }
BuildHasher(hc) == IF hc # "None" THEN FromRequirements("Verify") ELSE "None"

\* ------------------------------------------------------------------- files
Absent == [st |-> "absent", by |-> 0]
Exists(f) == disk[f].st # "absent"

\* ------------------------------------------------- package browser: state
\* Option<T>: None is the empty sequence, Some(x) the sequence of x alone.
None == <<>>
Some(x) == <<x>>

\* The characters of package names and search queries.
Chars == {"a", "A", "-", "_"}

\* The names of the projects on PyPI, as PyPI spells them.
PyPiNames == {<<"A">>, <<"-">>}

\* The keys of a KeyDownEvent: the named keys, the characters of names, and
\* two keys the search input ignores.
Keys == {"enter", "backspace", "escape", "tab", "!"} \cup Chars

\* PackageCache::new(): no entries.
PackageCacheNew == [k \in {} |-> None]

\* PackagesView::new().
PackagesViewNew ==
    [ search_query |-> <<>>,
      search_results |-> <<>>,
      installed_packages |-> <<>>,
      is_searching |-> FALSE,
      search_error |-> None,
      cache |-> PackageCacheNew,
      current_operation |-> None,
      success_message |-> None ]

\* No request to PyPI is pending; no child process is running.
NoLookup == [query |-> <<>>, state |-> "none"]
NoCommand == [verb |-> "none", name |-> <<>>]

\* The package browser when the window opens.
GuiFresh ==
    /\ view = PackagesViewNew
    /\ now = 0
    /\ lookup = NoLookup
    /\ command = NoCommand

\* ---------------------------------------------------------------- start up
NoTasks == [r \in Reqs |-> "idle"]
NoKeys == [d \in Dists |-> "none"]
NoFetches == [d \in Dists |-> 0]
NoGraph == [d \in Dists |-> "absent"]
NoHanded == [c \in {"resolver", "preparer"} |-> "unset"]
NoCall == [fn |-> "none"]
NoResult == [done |-> FALSE]
FnNames == {"zip_directory", "pack_wheel", "aggregate", "combine",
            "zip_directory_again", "pack_wheel_again", "categorize", "app_state"}
NoRet == [f \in FnNames |-> NoResult]
NoFirst == [result |-> "none", errKind |-> "none", disk |-> [f \in FileNames |-> Absent]]

\* An invocation that has not executed a statement yet.
Fresh ==
    /\ run = 1
    /\ pc = Order(mode)[1]
    /\ result = "none"
    /\ errKind = "none"
    /\ work = {}
    /\ hasher = "unset"
    /\ build_hasher = "unset"
    /\ resolved = FALSE
    /\ resolution = NoGraph
    /\ distributions = <<>>
    /\ auxKey = 0
    /\ task = NoTasks
    /\ in_flight = NoKeys
    /\ fetches = NoFetches
    /\ completed = <<>>
    /\ errors = <<>>
    /\ prepared = <<>>
    /\ idx = 1
    /\ downloaded_count = 0
    /\ built_wheels = <<>>
    /\ stderr = <<>>
    /\ dirExists = FALSE
    /\ disk = [f \in FileNames |-> Absent]
    /\ disk0 = [f \in FileNames |-> Absent]
    /\ first = NoFirst
    /\ handed = NoHanded

Init ==
    /\ mode \in {"download", "wheel"}
    /\ missing \in {"none", "requirements", "constraints", "overrides", "build_constraints"}
    /\ hash_checking \in {"None", "Require", "Verify"}
    /\ concurrency \in 1..MaxLimit
    /\ Fresh
    /\ call = NoCall
    /\ ret = NoRet
    /\ GuiFresh

\* ------------------------------------------------------ sequential prologue
\* operations::read_requirements(requirements, constraints, overrides, ..).await?
ReadRequirements ==
    /\ pc = "read_requirements"
    /\ IF missing \in {"requirements", "constraints", "overrides"}
       THEN Fail("InputError")
       ELSE Continue
    /\ UNCHANGED <<inputs, guiVars, fnVars, handed, run, work, hashVars, graphVars, prepVars, prepared,
                   outVars, fsVars, first>>

\* operations::read_constraints(build_constraints, ..).await?
ReadConstraints ==
    /\ pc = "read_constraints"
    /\ IF missing = "build_constraints"
       THEN Fail("InputError")
       ELSE Continue
    /\ UNCHANGED <<inputs, guiVars, fnVars, handed, run, work, hashVars, graphVars, prepVars, prepared,
                   outVars, fsVars, first>>

\* fs_err::create_dir_all(dest)
CreateDir ==
    /\ pc = "create_dir"
    /\ dirExists' = TRUE
    /\ Continue
    /\ UNCHANGED <<inputs, guiVars, fnVars, handed, run, work, hashVars, graphVars, prepVars, prepared,
                   outVars, disk, disk0, first>>

\* PythonInstallation::find_or_download(..).await?
FindPython ==
    /\ pc = "find_python"
    /\ work' = work \cup {"python"}
    /\ Continue
    /\ UNCHANGED <<inputs, guiVars, fnVars, handed, run, hashVars, graphVars, prepVars, prepared,
                   outVars, fsVars, first>>

\* Collect the set of required hashes.  The requirement entries that were
\* read declare hashes, or do not; the second invocation reads the entries
\* the first one accepted.
CollectHashes ==
    /\ pc = "hasher"
    /\ \E hashed \in {h \in BOOLEAN : run = 2 => ~FromRequirementsFails(hash_checking, h)} :
        IF hash_checking # "None" /\ FromRequirementsFails(hash_checking, hashed)
        THEN /\ Fail("HashError")
             /\ UNCHANGED hasher
        ELSE /\ hasher' = Hasher(hash_checking)
             /\ Continue
    /\ UNCHANGED <<inputs, guiVars, fnVars, handed, run, work, build_hasher, graphVars, prepVars, prepared,
                   outVars, fsVars, first>>

\* Resolve the flat indexes from `--find-links`: client.fetch_all(..).await?
FetchFlatIndex ==
    /\ pc = "flat_index"
    /\ work' = work \cup {"flat_index"}
    /\ Continue
    /\ UNCHANGED <<inputs, guiVars, fnVars, handed, run, hashVars, graphVars, prepVars, prepared,
                   outVars, fsVars, first>>

\* Enforce (but never require) the build constraints.
CollectBuildHashes ==
    /\ pc = "build_hasher"
    /\ build_hasher' = BuildHasher(hash_checking)
    /\ Continue
    /\ UNCHANGED <<inputs, guiVars, fnVars, handed, run, work, hasher, graphVars, prepVars, prepared,
                   outVars, fsVars, first>>

\* --------------------------------------------------------------- resolution
\* The graphs the resolver may return: the first n distributions, each one
\* installable or already installed.
Graphs ==
    {[d \in Dists |-> IF d <= n THEN k[d] ELSE "absent"] :
        n \in 0..MaxDists, k \in [Dists -> {"Installable", "Installed"}]}

\* Mutant: the plural form only for more than one.
PluralIfMany(n) == IF n > 1 THEN "s" ELSE ""

\* let s = if count == 1 { "" } else { "s" }
Plural(n) == IF n = 1 THEN "" ELSE "s"

\* A line of output: its kind, the filename it names, and the count of a
\* summary line with the plural suffix of its noun.
Line(k, f, n) ==
    [k |-> k, f |-> f, n |-> n, s |-> IF k = "Summary" THEN Plural(n) ELSE ""]

\* Mutant: a reported resolution error counts as a success.
ReportedStatusSuccess == "Success"

\* OperationDiagnostic::report(err).map_or(Ok(ExitStatus::Failure), ..): the
\* exit status of a run whose resolution error was rendered.
ReportedStatus == "Failure"

\* operations::resolve(.., &hasher, ..).await: a graph, or an error that the diagnostics
\* renderer reports (ExitStatus::Failure) or hands back (Err).
Resolve ==
    /\ pc = "resolve"
    /\ work' = work \cup {"resolve"}
    /\ handed' = [handed EXCEPT !["resolver"] = hasher]
    /\ \/ /\ \E g \in Graphs :
               /\ run = 2 => g = resolution
               /\ resolution' = g
          /\ resolved' = TRUE
          /\ Continue
          /\ UNCHANGED stderr
       \/ /\ run = 1
          /\ pc' = "done"
          /\ errKind' = "ResolutionError"
          /\ \/ /\ result' = ReportedStatus
                /\ stderr' = Append(stderr, Line("diagnostic", <<>>, 0))
             \/ /\ result' = "Err"
                /\ UNCHANGED stderr
          /\ UNCHANGED <<resolved, resolution>>
    /\ UNCHANGED <<inputs, guiVars, fnVars, run, hashVars, distributions, prepVars, prepared,
                   idx, downloaded_count, built_wheels, fsVars, first>>

\* Mutant: installed distributions are prepared too.
SelectedAny(kind) == kind # "absent"

\* Whether a distribution of the graph is handed to the preparer:
\* ResolvedDist::Installable => Some(dist), ResolvedDist::Installed => None.
Selected(kind) == kind = "Installable"

\* resolution.distributions().filter_map(..).collect()
Extract(res) == SelectSeq([i \in 1..MaxDists |-> i], LAMBDA d : Selected(res[d]))

\* Extract the distributions to download / to build.  pip_download returns
\* early when there is none.
ExtractDistributions ==
    /\ pc = "extract"
    /\ distributions' = Extract(resolution)
    /\ IF mode = "download" /\ distributions' = <<>>
       THEN /\ stderr' = Append(stderr, Line("NoPackages", <<>>, 0))
            /\ pc' = "done"
            /\ result' = "Success"
            /\ UNCHANGED errKind
       ELSE /\ Continue
            /\ UNCHANGED stderr
    /\ UNCHANGED <<inputs, guiVars, fnVars, handed, run, work, hashVars, resolved, resolution, prepVars,
                   prepared, idx, downloaded_count, built_wheels, fsVars, first>>

\* --------------------------------------------------------------- preparation
\* The distribution identity a requester asks for.
Key(r) == IF r = Dispatch THEN auxKey ELSE r

\* Mutant: one slot too many.
DatabaseLimitOff(c) == c + 1

\* DistributionDatabase::new(&client, &build_dispatch, concurrency.downloads)
DatabaseLimit(c) == c

\* Whether the registry handed to prepare is also held by the build dispatch:
\* pip_download hands over state.in_flight() of the SharedState it cloned
\* into the BuildDispatch, pip_wheel a fresh InFlight::default().
SharedWithDispatch(m) == m = "download"

Running == Cardinality({r \in Reqs : task[r] = "running"})

Settled(r) == task[r] \in {"idle", "ok", "err"}

\* Mutant: prepare hands back the first error at once.
FailFast == errors # <<>> \/ \A r \in Reqs : Settled(r)

\* Whether prepare may hand back its result: nothing is in flight any more.
AllSettled == \A r \in Reqs : Settled(r)

\* Mutant: the registry is not consulted.
KeyIsFreeAlways(k) == TRUE

\* A requester finds its key free in the registry.
KeyIsFree(k) == in_flight[k] = "none"

\* Preparer::new(&cache, &tags, &hasher, &build_options, database), then
\* preparer.prepare(distributions, in_flight, &resolution): one task per
\* distribution is issued.  The build dispatch may ask the shared registry
\* for one of the same distributions (a build requirement).
PrepareStart ==
    /\ pc = "prepare"
    /\ pc' = "preparing"
    /\ work' = work \cup {"prepare"}
    /\ handed' = [handed EXCEPT !["preparer"] = hasher]
    /\ \E k \in {0} \cup {d \in Range(distributions) : SharedWithDispatch(mode)} :
        /\ auxKey' = k
        /\ task' = [r \in Reqs |->
                      IF r \in Range(distributions) \/ (r = Dispatch /\ k # 0)
                      THEN "issued" ELSE "idle"]
    /\ in_flight' = NoKeys
    /\ fetches' = NoFetches
    /\ completed' = <<>>
    /\ errors' = <<>>
    /\ UNCHANGED <<inputs, guiVars, fnVars, run, result, errKind, hashVars, graphVars, prepared,
                   outVars, fsVars, first>>

\* A requester looks its key up in the in-flight registry: the first one
\* registers it and will do the work, a later one waits for the result.
Register(r) ==
    /\ pc = "preparing"
    /\ task[r] = "issued"
    /\ IF KeyIsFree(Key(r))
       THEN /\ in_flight' = [in_flight EXCEPT ![Key(r)] = "pending"]
            /\ task' = [task EXCEPT ![r] = "owner"]
       ELSE /\ task' = [task EXCEPT ![r] = "waiting"]
            /\ UNCHANGED in_flight
    /\ UNCHANGED <<inputs, guiVars, fnVars, handed, run, pc, result, errKind, work, hashVars, graphVars,
                   auxKey, fetches, completed, errors, prepared, outVars, fsVars, first>>

\* The owner of a key starts the fetch / build once a slot is free.
StartFetch(r) ==
    /\ pc = "preparing"
    /\ task[r] = "owner"
    /\ Running < DatabaseLimit(concurrency)
    /\ task' = [task EXCEPT ![r] = "running"]
    /\ fetches' = [fetches EXCEPT ![Key(r)] = @ + 1]
    /\ UNCHANGED <<inputs, guiVars, fnVars, handed, run, pc, result, errKind, work, hashVars, graphVars,
                   auxKey, in_flight, completed, errors, prepared, outVars, fsVars, first>>

\* A requester of the top-level call hands its result to the caller.
Deliver(r, res) ==
    /\ completed' = IF r # Dispatch /\ res = "ok" THEN Append(completed, r) ELSE completed
    /\ errors' = IF r # Dispatch /\ res = "err" THEN Append(errors, r) ELSE errors

\* How a fetch / build may end.  The second invocation follows a first one
\* that prepared every distribution into the cache, and finds them there.
FetchOutcomes == IF run = 1 THEN {"ok", "err"} ELSE {"ok"}

\* The fetch / build ends, with a wheel or with an error; the result is
\* published under the key.
FinishFetch(r) ==
    /\ pc = "preparing"
    /\ task[r] = "running"
    /\ \E res \in FetchOutcomes :
        /\ task' = [task EXCEPT ![r] = res]
        /\ in_flight' = [in_flight EXCEPT ![Key(r)] = res]
        /\ Deliver(r, res)
    /\ UNCHANGED <<inputs, guiVars, fnVars, handed, run, pc, result, errKind, work, hashVars, graphVars,
                   auxKey, fetches, prepared, outVars, fsVars, first>>

\* A waiting requester receives the result published under its key.
AwaitResult(r) ==
    /\ pc = "preparing"
    /\ task[r] = "waiting"
    /\ in_flight[Key(r)] \in {"ok", "err"}
    /\ task' = [task EXCEPT ![r] = in_flight[Key(r)]]
    /\ Deliver(r, in_flight[Key(r)])
    /\ UNCHANGED <<inputs, guiVars, fnVars, handed, run, pc, result, errKind, work, hashVars, graphVars,
                   auxKey, in_flight, fetches, prepared, outVars, fsVars, first>>

\* Mutant: the caller goes on without awaiting the preparation.
NotAwaited == TRUE

\* .prepare(..).await: the caller goes on when the preparation has completed.
Awaited == AllSettled

\* .prepare(..).await?: the caller gets the wheels, or the first error.
PrepareReturn ==
    /\ pc = "preparing"
    /\ Awaited
    /\ IF errors # <<>>
       THEN /\ pc' = "done"
            /\ result' = "Err"
            /\ errKind' = "PreparationError"
            /\ stderr' = Append(stderr, Line("error", Filename(Head(errors)), 0))
            /\ UNCHANGED prepared
       ELSE /\ prepared' = completed
            /\ pc' = NextStep(mode, "prepare")
            /\ UNCHANGED <<result, errKind, stderr>>
    /\ UNCHANGED <<inputs, guiVars, fnVars, handed, run, work, hashVars, graphVars, prepVars, idx,
                   downloaded_count, built_wheels, fsVars, first>>

\* ------------------------------------------------------------ materialization
\* How a packing call may end: Ok, an error of File::create, or an error
\* after the destination file was created.
PackOutcomes == {"ok", "create_failed", "write_failed"}

File(st) == [st |-> st, by |-> run]

\* Mutant: a failed packing removes what the run has written so far.
ZipDirectoryRollback(dk, f, out) ==
    IF out = "ok"
    THEN [dk EXCEPT ![f] = File("full")]
    ELSE [g \in FileNames |-> IF dk[g].by = run THEN Absent ELSE dk[g]]

\* zip_directory(source_dir, dest_file): the output directory afterwards.
ZipDirectory(dk, f, out) ==
    CASE out = "ok" -> [dk EXCEPT ![f] = File("full")]
      [] out = "write_failed" -> [dk EXCEPT ![f] = File("partial")]
      [] OTHER -> dk

\* Mutant: pack_wheel leaves an existing file alone.
PackWheelIfAbsent(dk, f, out) ==
    IF dk[f].st # "absent" THEN dk ELSE ZipDirectory(dk, f, out)

\* pack_wheel(source_dir, dest_path): the output directory afterwards.
\* File::create truncates a file that is already there.
PackWheel(dk, f, out) ==
    CASE out = "ok" -> [dk EXCEPT ![f] = File("full")]
      [] out = "write_failed" -> [dk EXCEPT ![f] = File("partial")]
      [] OTHER -> dk

\* Sort by filename for consistent output order (pip_download).
SortPrepared ==
    /\ pc = "sort"
    /\ mode = "download"
    /\ prepared' = SortByFilename(prepared)
    /\ Continue
    /\ UNCHANGED <<inputs, guiVars, fnVars, handed, run, work, hashVars, graphVars, prepVars, outVars,
                   fsVars, first>>

\* Mutant: the existence check is left out.
SkipExistingNever(f) == FALSE

\* Whether the download loop leaves the artifact alone: dest_path.exists().
SkipExisting(f) == Exists(f)

\* One iteration of `for wheel in &prepared` of pip_download.  An error of
\* zip_directory ends the run (`?`) and is printed as the run's error.
MaterializeDownload ==
    /\ pc = "materialize"
    /\ mode = "download"
    /\ idx <= Len(prepared)
    /\ LET f == Filename(prepared[idx]) IN
        IF SkipExisting(f)
        THEN /\ stderr' = Append(stderr, Line("Skipping", f, 0))
             /\ idx' = idx + 1
             /\ UNCHANGED <<pc, result, errKind, disk, downloaded_count>>
        ELSE \E out \in PackOutcomes :
             /\ disk' = ZipDirectory(disk, f, out)
             /\ IF out = "ok"
                THEN /\ stderr' = Append(stderr, Line("Downloaded", f, 0))
                     /\ downloaded_count' = downloaded_count + 1
                     /\ idx' = idx + 1
                     /\ UNCHANGED <<pc, result, errKind>>
                ELSE /\ Fail("PackagingError")
                     /\ stderr' = Append(stderr, Line("error", f, 0))
                     /\ UNCHANGED <<downloaded_count, idx>>
    /\ UNCHANGED <<inputs, guiVars, fnVars, handed, run, work, hashVars, graphVars, prepVars, prepared,
                   built_wheels, dirExists, disk0, first>>

\* One iteration of `for wheel in wheels` of pip_wheel.  An error of
\* pack_wheel ends the run ("Failed to pack wheel from .. to ..").
MaterializeWheel ==
    /\ pc = "materialize"
    /\ mode = "wheel"
    /\ idx <= Len(prepared)
    /\ LET f == Filename(prepared[idx]) IN
        \E out \in PackOutcomes :
             /\ disk' = PackWheel(disk, f, out)
             /\ IF out = "ok"
                THEN /\ built_wheels' = Append(built_wheels, f)
                     /\ idx' = idx + 1
                     /\ UNCHANGED <<pc, result, errKind, stderr>>
                ELSE /\ Fail("PackagingError")
                     /\ stderr' = Append(stderr, Line("error", f, 0))
                     /\ UNCHANGED <<built_wheels, idx>>
    /\ UNCHANGED <<inputs, guiVars, fnVars, handed, run, work, hashVars, graphVars, prepVars, prepared,
                   downloaded_count, dirExists, disk0, first>>

\* The loop over the prepared wheels ends.
LoopExit ==
    /\ pc = "materialize"
    /\ idx > Len(prepared)
    /\ Continue
    /\ UNCHANGED <<inputs, guiVars, fnVars, handed, run, work, hashVars, graphVars, prepVars, prepared,
                   outVars, fsVars, first>>

\* Sort the wheels for consistent output (pip_wheel).
SortBuilt ==
    /\ pc = "sort"
    /\ mode = "wheel"
    /\ built_wheels' = SortStrings(built_wheels)
    /\ Continue
    /\ UNCHANGED <<inputs, guiVars, fnVars, handed, run, work, hashVars, graphVars, prepVars, prepared,
                   idx, downloaded_count, stderr, fsVars, first>>

\* The " - <filename>" lines of pip_wheel.
BuiltLines(names) == [i \in 1..Len(names) |-> Line("Built", names[i], 0)]

\* Mutant: the summary counts every prepared artifact.
SummaryCountPrepared == Len(prepared)

\* The count of the summary line: "Downloaded {downloaded_count} package{s}",
\* "Successfully built {built_wheels.len()} wheel{s}".
SummaryCount ==
    IF mode = "download" THEN downloaded_count ELSE Len(built_wheels)

\* Print the summary and return ExitStatus::Success.
PrintSummary ==
    /\ pc = "summary"
    /\ stderr' = IF mode = "download"
                 THEN Append(stderr, Line("Summary", <<>>, SummaryCount))
                 ELSE Append(stderr, Line("Summary", <<>>, SummaryCount))
                          \o BuiltLines(built_wheels)
    /\ pc' = "done"
    /\ result' = "Success"
    /\ UNCHANGED <<inputs, guiVars, fnVars, handed, run, errKind, work, hashVars, graphVars, prepVars,
                   prepared, idx, downloaded_count, built_wheels, fsVars, first>>

\* ------------------------------------------------------------ second invocation
\* The same command is invoked again, with the same inputs, on the output
\* directory the first invocation left behind.  (A first invocation that
\* ended before materialization is not followed up: it repeats itself.)
Rerun ==
    /\ pc = "done"
    /\ run = 1
    /\ result = "Success" \/ errKind = "PackagingError"
    /\ run' = 2
    /\ first' = [result |-> result, errKind |-> errKind, disk |-> disk]
    /\ disk0' = disk
    /\ pc' = Order(mode)[1]
    /\ result' = "none"
    /\ errKind' = "none"
    /\ work' = {}
    /\ hasher' = "unset"
    /\ build_hasher' = "unset"
    /\ handed' = NoHanded
    /\ resolved' = FALSE
    /\ distributions' = <<>>
    /\ auxKey' = 0
    /\ task' = NoTasks
    /\ in_flight' = NoKeys
    /\ fetches' = NoFetches
    /\ completed' = <<>>
    /\ errors' = <<>>
    /\ prepared' = <<>>
    /\ idx' = 1
    /\ downloaded_count' = 0
    /\ built_wheels' = <<>>
    /\ stderr' = <<>>
    /\ UNCHANGED <<inputs, guiVars, fnVars, resolution, dirExists, disk>>

Next ==
    \/ ReadRequirements
    \/ ReadConstraints
    \/ CreateDir
    \/ FindPython
    \/ CollectHashes
    \/ FetchFlatIndex
    \/ CollectBuildHashes
    \/ Resolve
    \/ ExtractDistributions
    \/ PrepareStart
    \/ \E r \in Reqs : Register(r)
    \/ \E r \in Reqs : StartFetch(r)
    \/ \E r \in Reqs : FinishFetch(r)
    \/ \E r \in Reqs : AwaitResult(r)
    \/ PrepareReturn
    \/ SortPrepared
    \/ MaterializeDownload
    \/ MaterializeWheel
    \/ LoopExit
    \/ SortBuilt
    \/ PrintSummary
    \/ Rerun

Spec == Init /\ [][Next]_vars

\* ------------------------------------------------------- packing a directory
\* The path separator, the replacement character of to_string_lossy, and
\* the permission bits 0o644.
Sep == 0
Repl == 9
UnixPermissions == 420

\* The names of directory entries: name n is valid UTF-8, name -n is not.
Components == (1..MaxNames) \cup {0 - n : n \in 1..MaxNames}

\* Paths below the source directory: a name, or a name inside the directory
\* named 1 or -1.
Paths == {<<c>> : c \in Components} \cup {<<d, c>> : d \in {1, 0 - 1}, c \in Components}

\* Whether Path::to_str succeeds: every component is valid UTF-8.
IsUtf8(p) == \A i \in 1..Len(p) : p[i] > 0

\* What the directory walk yields after the root: an error, or an entry that
\* is a regular file, a directory, or neither (a dangling symbolic link), and
\* whose name is valid UTF-8 or is not.
WalkError == [t |-> "err", path |-> <<>>, kind |-> "none", utf8 |-> TRUE]
WalkItems ==
    {WalkError} \cup
    {[t |-> "entry", path |-> p, kind |-> k, utf8 |-> IsUtf8(p)] :
        p \in Paths, k \in {"file", "dir", "other"}}

\* A walk names a path once, and a path inside a directory after the directory.
WellFormed(w) ==
    \A i \in 1..Len(w) : w[i].t = "entry" =>
        /\ \A j \in 1..Len(w) : (j # i /\ w[j].t = "entry") => w[j].path # w[i].path
        /\ Len(w[i].path) = 2 =>
              \E j \in 1..(i - 1) :
                  w[j].t = "entry" /\ w[j].path = <<w[i].path[1]>> /\ w[j].kind = "dir"

\* The cache location of a prepared wheel: an unpacked directory, or a
\* single file.
Sources ==
    {[root |-> "dir", walk |-> w] : w \in {v \in SeqsUpTo(WalkItems, MaxWalk) : WellFormed(v)}}
        \cup {[root |-> "file", walk |-> <<>>]}

\* WalkDir::new(source_dir): the root first, then what is below it.
WalkDir(src) ==
    <<[t |-> "entry", path |-> <<>>, kind |-> src.root, utf8 |-> TRUE]>> \o src.walk

\* The relative path as a string: the components joined by the separator.
RECURSIVE PathStr(_)
PathStr(p) ==
    IF p = <<>> THEN <<>>
    ELSE IF Len(p) = 1 THEN <<p[1]>>
    ELSE <<p[1], Sep>> \o PathStr(Tail(p))

\* Path::to_string_lossy: an invalid sequence becomes the replacement character.
ToStringLossy(e) ==
    [i \in 1..Len(PathStr(e.path)) |->
        IF PathStr(e.path)[i] < 0 THEN Repl ELSE PathStr(e.path)[i]]

\* ZipWriter::add_directory: the entry name gets a trailing separator unless
\* it has one; a directory entry is stored.
AddDirectory(name, perm) ==
    [name |-> IF name # <<>> /\ name[Len(name)] = Sep THEN name ELSE Append(name, Sep),
     kind |-> "dir", method |-> "stored", perm |-> perm]

\* ZipWriter::start_file with the Deflated compression method.
StartFile(name, perm) ==
    [name |-> name, kind |-> "file", method |-> "deflated", perm |-> perm]

Packed(entries) == [done |-> TRUE, ok |-> TRUE, err |-> "none", entries |-> entries]
PackFailed(err, entries) == [done |-> TRUE, ok |-> FALSE, err |-> err, entries |-> entries]

\* Mutant: the root directory is packed like any other entry.
IsRootNever(e) == FALSE

\* Skip the root directory itself: the relative path is empty.
IsRoot(e) == e.path = <<>>

\* The loop of zip_directory over the walk.
RECURSIVE ZipDirectoryLoop(_, _)
ZipDirectoryLoop(items, zip) ==
    IF items = <<>> THEN Packed(zip)
    ELSE LET e == Head(items) IN
         IF e.t = "err" THEN ZipDirectoryLoop(Tail(items), zip)
         ELSE IF IsRoot(e) THEN ZipDirectoryLoop(Tail(items), zip)
         ELSE IF ~e.utf8 THEN PackFailed("Non-UTF8 path", zip)
         ELSE IF e.kind = "dir"
              THEN ZipDirectoryLoop(Tail(items),
                       Append(zip, AddDirectory(Append(PathStr(e.path), Sep), "default")))
         ELSE IF e.kind = "file"
              THEN ZipDirectoryLoop(Tail(items),
                       Append(zip, StartFile(PathStr(e.path), "default")))
         ELSE PackFailed("open", Append(zip, StartFile(PathStr(e.path), "default")))

\* The loop of pack_wheel over the walk.
RECURSIVE PackWheelLoop(_, _)
PackWheelLoop(items, zip) ==
    IF items = <<>> THEN Packed(zip)
    ELSE LET e == Head(items) IN
         IF e.t = "err" THEN PackFailed("walk", zip)
         ELSE IF IsRoot(e) THEN PackWheelLoop(Tail(items), zip)
         ELSE IF e.kind = "file"
              THEN PackWheelLoop(Tail(items),
                       Append(zip, StartFile(ToStringLossy(e), UnixPermissions)))
         ELSE IF e.kind = "dir"
              THEN PackWheelLoop(Tail(items),
                       Append(zip, AddDirectory(ToStringLossy(e), UnixPermissions)))
         ELSE PackWheelLoop(Tail(items), zip)

\* zip_directory(source_dir, dest_file): File::create, the loop, finish.
ZipDirectoryFn(src, dest_ok) ==
    IF ~dest_ok THEN PackFailed("create", <<>>) ELSE ZipDirectoryLoop(WalkDir(src), <<>>)

\* pack_wheel(source_dir, dest_path): File::create, the loop, finish.
PackWheelFn(src, dest_ok) ==
    IF ~dest_ok THEN PackFailed("create", <<>>) ELSE PackWheelLoop(WalkDir(src), <<>>)

\* What is at the destination after a packing call: nothing, a ZIP container
\* with the entries written, complete or not.
Destination(res) ==
    IF res.err = "create" THEN [form |-> "absent"]
    ELSE [form |-> "zip", complete |-> res.ok, entries |-> res.entries]

\* What a verbatim copy of a single wheel file would leave at the destination.
VerbatimCopy(src) == [form |-> "copy", of |-> src]

\* The packing calls: a source and whether the destination can be created.
PackCalls == {[fn |-> "pack", src |-> s, dest_ok |-> d] : s \in Sources, d \in BOOLEAN}

\* pip_download calls zip_directory(source_path, &dest_path) for a prepared
\* wheel whose destination does not exist.
ApplyZipDirectory ==
    /\ call.fn = "pack"
    /\ ~ret["zip_directory"].done
    /\ ret' = [ret EXCEPT !["zip_directory"] = ZipDirectoryFn(call.src, call.dest_ok)]
    /\ UNCHANGED <<inputs, guiVars, call, handed, run, pc, result, errKind, work, hashVars,
                   graphVars, prepVars, prepared, outVars, fsVars, first>>

\* pip_wheel calls pack_wheel(wheel.path(), &dest_path) for every prepared wheel.
ApplyPackWheel ==
    /\ call.fn = "pack"
    /\ ~ret["pack_wheel"].done
    /\ ret' = [ret EXCEPT !["pack_wheel"] = PackWheelFn(call.src, call.dest_ok)]
    /\ UNCHANGED <<inputs, guiVars, call, handed, run, pc, result, errKind, work, hashVars,
                   graphVars, prepVars, prepared, outVars, fsVars, first>>

\* --------------------------------------------------------------- round trip
\* The path an entry name stands for: its components (one character each),
\* without the separators.
ParsePath(name) == SelectSeq(name, LAMBDA c : c # Sep)

\* The proper ancestors of a path below the root.
Ancestors(p) == {SubSeq(p, 1, k) : k \in 1..(Len(p) - 1)}

\* Unpacking an archive into an empty directory: every entry becomes a file
\* or a directory, and the directories above it are created.
Unpack(entries) ==
    LET named == {[t |-> "entry", path |-> ParsePath(entries[i].name),
                   kind |-> entries[i].kind, utf8 |-> TRUE] : i \in 1..Len(entries)}
        paths == {x.path : x \in named}
        above == UNION {Ancestors(x.path) : x \in named} \ paths
    IN {x \in named : x.path # <<>>}
           \cup {[t |-> "entry", path |-> p, kind |-> "dir", utf8 |-> TRUE] : p \in above}

\* The orders in which a walk may yield the unpacked tree.
WalksOf(items) ==
    {w \in [1..Cardinality(items) -> items] :
        /\ \A i \in DOMAIN w : \A j \in DOMAIN w : w[i] = w[j] => i = j
        /\ \A i \in DOMAIN w : \A a \in Ancestors(w[i].path) :
              \E j \in 1..(i - 1) : w[j].path = a /\ w[j].kind = "dir"}

\* The archive zip_directory wrote is unpacked and packed again by zip_directory.
RepackZipDirectory ==
    /\ call.fn = "pack"
    /\ ret["zip_directory"].done /\ ret["zip_directory"].ok
    /\ ~ret["zip_directory_again"].done
    /\ \E w \in WalksOf(Unpack(ret["zip_directory"].entries)) :
          ret' = [ret EXCEPT !["zip_directory_again"] =
                     ZipDirectoryFn([root |-> "dir", walk |-> w], TRUE)]
    /\ UNCHANGED <<inputs, guiVars, call, handed, run, pc, result, errKind, work, hashVars,
                   graphVars, prepVars, prepared, outVars, fsVars, first>>

\* The archive pack_wheel wrote is unpacked and packed again by pack_wheel.
RepackPackWheel ==
    /\ call.fn = "pack"
    /\ ret["pack_wheel"].done /\ ret["pack_wheel"].ok
    /\ ~ret["pack_wheel_again"].done
    /\ \E w \in WalksOf(Unpack(ret["pack_wheel"].entries)) :
          ret' = [ret EXCEPT !["pack_wheel_again"] =
                     PackWheelFn([root |-> "dir", walk |-> w], TRUE)]
    /\ UNCHANGED <<inputs, guiVars, call, handed, run, pc, result, errKind, work, hashVars,
                   graphVars, prepVars, prepared, outVars, fsVars, first>>

\* ------------------------------------------------- aggregating requirements
\* An explicitly supplied entry: a requirement, with declared hashes or not.
ExplicitEntries == {[requirement |-> n, hashes |-> h] : n \in 1..MaxNames, h \in BOOLEAN}

\* NameRequirementSpecification::from(Requirement) and
\* UnresolvedRequirementSpecification::from(Requirement): no hashes.
FromRequirement(r) == [requirement |-> r, hashes |-> FALSE]

\* Mutant: a workspace entry that an explicit entry names already is left out.
AggregateDeduplicated(explicit, workspace) ==
    explicit \o SelectSeq([i \in 1..Len(workspace) |-> FromRequirement(workspace[i])],
                          LAMBDA x : \A i \in 1..Len(explicit) :
                                        explicit[i].requirement # x.requirement)

\* explicit.iter().cloned().chain(from_workspace.into_iter().map(..::from)).collect()
Aggregate(explicit, workspace) ==
    explicit \o [i \in 1..Len(workspace) |-> FromRequirement(workspace[i])]

AggregateCalls ==
    {[fn |-> "aggregate", category |-> c, explicit |-> e, workspace |-> w] :
        c \in {"constraints", "overrides", "build_constraints"},
        e \in SeqsUpTo(ExplicitEntries, MaxLen),
        w \in SeqsUpTo(1..MaxNames, MaxLen)}

\* pip_wheel builds the constraints, the overrides or the build constraints.
ApplyAggregate ==
    /\ call.fn = "aggregate"
    /\ ~ret["aggregate"].done
    /\ ret' = [ret EXCEPT !["aggregate"] =
                  [done |-> TRUE, list |-> Aggregate(call.explicit, call.workspace)]]
    /\ UNCHANGED <<inputs, guiVars, call, handed, run, pc, result, errKind, work, hashVars,
                   graphVars, prepVars, prepared, outVars, fsVars, first>>

\* ----------------------------------------------------------- index locations
\* Index::from_extra_index_url, Index::from_index_url, Index::from_find_links.
FromExtraIndexUrl(u) == [url |-> u, default |-> FALSE, origin |-> "None"]
FromIndexUrl(u) == [url |-> u, default |-> TRUE, origin |-> "None"]
FromFindLinks(u) == [url |-> u, default |-> FALSE, origin |-> "None"]

\* index.with_origin(origin)
WithOrigin(index, origin) == [index EXCEPT !.origin = origin]

\* .map(|index| index.with_origin(Origin::RequirementsTxt))
Tagged(s) == [i \in 1..Len(s) |-> WithOrigin(s[i], "RequirementsTxt")]

\* Mutant: the default index comes before the extra indexes.
RequirementIndexesDefaultFirst(extra_index_urls, index_url) ==
    Tagged([i \in 1..Len(index_url) |-> FromIndexUrl(index_url[i])]
               \o [i \in 1..Len(extra_index_urls) |-> FromExtraIndexUrl(extra_index_urls[i])])

\* The indexes of the requirement sources, as handed to combine:
\* extra_index_urls.map(from_extra_index_url).chain(index_url.map(from_index_url))
\*     .map(|index| index.with_origin(Origin::RequirementsTxt)).collect()
RequirementIndexes(extra_index_urls, index_url) ==
    Tagged([i \in 1..Len(extra_index_urls) |-> FromExtraIndexUrl(extra_index_urls[i])]
               \o [i \in 1..Len(index_url) |-> FromIndexUrl(index_url[i])])

\* find_links.map(from_find_links).map(with_origin(RequirementsTxt)).collect()
RequirementFlatIndexes(find_links) ==
    Tagged([i \in 1..Len(find_links) |-> FromFindLinks(find_links[i])])

\* Keep the first occurrence of every URL.
RECURSIVE DedupByUrl(_, _)
DedupByUrl(s, seen) ==
    IF s = <<>> THEN <<>>
    ELSE IF Head(s).url \in seen THEN DedupByUrl(Tail(s), seen)
    ELSE <<Head(s)>> \o DedupByUrl(Tail(s), seen \cup {Head(s).url})

\* IndexLocations::combine(self, indexes, flat_index, no_index): the given
\* locations follow the configured ones.
Combine(base, indexes, flat_index, no_index) ==
    [indexes |-> DedupByUrl(base.indexes \o indexes, {}),
     flat_index |-> DedupByUrl(base.flat_index \o flat_index, {}),
     no_index |-> base.no_index \/ no_index]

\* The registry indexes of the merged locations: none under no-index.
Registry(locations) == IF locations.no_index THEN <<>> ELSE locations.indexes

Urls == 1..MaxNames

\* The configured locations: at most one index, given on the command line.
BaseLocations ==
    {[indexes |-> i, flat_index |-> <<>>, no_index |-> FALSE] :
        i \in SeqsUpTo({[url |-> u, default |-> FALSE, origin |-> "Cli"] : u \in Urls}, 1)}

CombineCalls ==
    {[fn |-> "combine", base |-> b, extra_index_urls |-> e, index_url |-> i,
      find_links |-> f, no_index |-> n] :
        b \in BaseLocations, e \in SeqsUpTo(Urls, MaxLen), i \in SeqsUpTo(Urls, 1),
        f \in SeqsUpTo(Urls, 1), n \in BOOLEAN}

\* Incorporate any index locations from the provided sources.
ApplyCombine ==
    /\ call.fn = "combine"
    /\ ~ret["combine"].done
    /\ ret' = [ret EXCEPT !["combine"] =
                  [done |-> TRUE,
                   locations |-> Combine(call.base,
                                         RequirementIndexes(call.extra_index_urls, call.index_url),
                                         RequirementFlatIndexes(call.find_links),
                                         call.no_index)]]
    /\ UNCHANGED <<inputs, guiVars, call, handed, run, pc, result, errKind, work, hashVars,
                   graphVars, prepVars, prepared, outVars, fsVars, first>>

\* ------------------------------------------------------- application state
Tabs == {"Project", "Packages", "Environments", "Python", "Settings"}
LoadingStates == {"Idle", "Loading", "Loaded", "Error"}
NotificationTypes == {"Info", "Success", "Warning", "Error"}

\* Notification::info, success, warning and error.
Notification(notification_type) ==
    [notification_type |-> notification_type, dismissible |-> TRUE]

\* AppState::new() without its notifications, and the other values of
\* these fields.
AppStateNew ==
    [current_tab |-> "Project", project |-> None, loading_state |-> "Idle",
     dark_mode |-> TRUE]
Frames ==
    {AppStateNew}
    \cup {[AppStateNew EXCEPT !.current_tab = t] : t \in Tabs}
    \cup {[AppStateNew EXCEPT !.loading_state = l] : l \in LoadingStates}
    \cup {[AppStateNew EXCEPT !.project = Some(1)],
          [AppStateNew EXCEPT !.dark_mode = FALSE],
          [current_tab |-> "Packages", project |-> Some(1),
           loading_state |-> "Loading", dark_mode |-> FALSE]}

\* The values of an AppState (the paths are left out).
AppStates ==
    {[current_tab |-> f.current_tab, project |-> f.project,
      notifications |-> n, loading_state |-> f.loading_state,
      dark_mode |-> f.dark_mode] :
        f \in Frames,
        n \in SeqsUpTo({Notification(t) : t \in NotificationTypes}, MaxLen)}

\* AppState::add_notification.
AddNotification(state, notification) ==
    [state EXCEPT !.notifications = Append(@, notification)]

\* Mutant: the index counts from one.
VecRemoveFromOne(v, index) ==
    [i \in 1..(Len(v) - 1) |-> IF i < index THEN v[i] ELSE v[i + 1]]

\* Vec::remove(index): the index counts from zero.
VecRemove(v, index) ==
    [i \in 1..(Len(v) - 1) |-> IF i <= index THEN v[i] ELSE v[i + 1]]

\* AppState::remove_notification.
RemoveNotification(state, index) ==
    IF index < Len(state.notifications)
    THEN [state EXCEPT !.notifications = VecRemove(@, index)]
    ELSE state

\* AppState::clear_notifications.
ClearNotifications(state) == [state EXCEPT !.notifications = <<>>]

AppStateCalls ==
    {[fn |-> "app_state", state |-> s, op |-> "add_notification", arg |-> Notification(t)] :
        s \in AppStates, t \in NotificationTypes}
    \cup {[fn |-> "app_state", state |-> s, op |-> "remove_notification", arg |-> i] :
        s \in AppStates, i \in 0..(MaxLen + 1)}
    \cup {[fn |-> "app_state", state |-> s, op |-> "clear_notifications", arg |-> 0] :
        s \in AppStates}

ApplyAppState ==
    /\ call.fn = "app_state"
    /\ ~ret["app_state"].done
    /\ ret' = [ret EXCEPT !["app_state"] =
                  [done |-> TRUE,
                   state |-> CASE call.op = "add_notification" ->
                                     AddNotification(call.state, call.arg)
                               [] call.op = "remove_notification" ->
                                     RemoveNotification(call.state, call.arg)
                               [] OTHER -> ClearNotifications(call.state)]]
    /\ UNCHANGED <<inputs, guiVars, call, handed, run, pc, result, errKind, work, hashVars,
                   graphVars, prepVars, prepared, outVars, fsVars, first>>

\* -------------------------------------------------- loading the dependencies
\* DependencySource; the extra or group is named where there is one.
DependencySources ==
    {[k |-> "Project", n |-> ""], [k |-> "ToolUvDevDependencies", n |-> ""]}
    \cup {[k |-> "OptionalDependency", n |-> e] : e \in {"dev", "test"}}
    \cup {[k |-> "DependencyGroup", n |-> g] : g \in {"dev", "docs"}}

\* DependencySource::is_dev.
IsDev(source) ==
    CASE source.k = "Project" -> FALSE
      [] source.k = "OptionalDependency" -> source.n = "dev"
      [] source.k = "ToolUvDevDependencies" -> TRUE
      [] OTHER -> source.n = "dev"

\* DependencySource::label.
Label(source) ==
    CASE source.k = "Project" -> "dependencies"
      [] source.k = "OptionalDependency" -> "optional"
      [] source.k = "ToolUvDevDependencies" -> "tool.uv"
      [] OTHER -> "group"

\* LoadedDependency: the requirement string is the name with the source's
\* specifier.
LoadedDependencies == [name : 1..MaxNames, source : DependencySources]

\* The versions of the lock file: build_version_map.
VersionMaps == {[n \in S |-> 1] : S \in {{}, {1}}}

\* The Package built for a dependency in categorize_and_enrich.
EnrichedPackage(dep, version_map) ==
    [ name |-> dep.name,
      installed_version |->
          IF dep.name \in DOMAIN version_map THEN Some(version_map[dep.name]) ELSE None,
      required_version |-> Some(<<dep.name, dep.source>>),
      is_dev |-> IsDev(dep.source),
      source_label |-> Some(Label(dep.source)) ]

\* Mutant: no name has been seen.
SeenDevNever(dev_dependencies, name) == FALSE

\* Whether seen_dev holds the name: it holds the names of dev_dependencies.
SeenDev(dev_dependencies, name) ==
    \E i \in 1..Len(dev_dependencies) : dev_dependencies[i].name = name

\* The loop of categorize_and_enrich over raw_deps.
RECURSIVE CategorizeLoop(_, _, _, _)
CategorizeLoop(raw_deps, version_map, dependencies, dev_dependencies) ==
    IF raw_deps = <<>>
    THEN [dependencies |-> dependencies, dev_dependencies |-> dev_dependencies]
    ELSE LET dep == Head(raw_deps)
             package == EnrichedPackage(dep, version_map) IN
         IF IsDev(dep.source)
         THEN IF ~SeenDev(dev_dependencies, dep.name)
              THEN CategorizeLoop(Tail(raw_deps), version_map, dependencies,
                                  Append(dev_dependencies, package))
              ELSE CategorizeLoop(Tail(raw_deps), version_map, dependencies,
                                  dev_dependencies)
         ELSE CategorizeLoop(Tail(raw_deps), version_map,
                             Append(dependencies, package), dev_dependencies)

\* ProjectLoader::categorize_and_enrich.
CategorizeAndEnrich(raw_deps, version_map) ==
    CategorizeLoop(raw_deps, version_map, <<>>, <<>>)

CategorizeCalls ==
    {[fn |-> "categorize", raw_deps |-> r, version_map |-> m] :
        r \in SeqsUpTo(LoadedDependencies, MaxLen), m \in VersionMaps}

ApplyCategorize ==
    /\ call.fn = "categorize"
    /\ ~ret["categorize"].done
    /\ ret' = [ret EXCEPT !["categorize"] =
                  [done |-> TRUE,
                   lists |-> CategorizeAndEnrich(call.raw_deps, call.version_map)]]
    /\ UNCHANGED <<inputs, guiVars, call, handed, run, pc, result, errKind, work, hashVars,
                   graphVars, prepVars, prepared, outVars, fsVars, first>>

\* ------------------------------------------------------- the helper functions
\* The helper functions of the two commands, each applied to arguments drawn
\* from the bounded sets above; the invocation itself has not started.
HelperInit ==
    /\ call \in PackCalls \cup AggregateCalls \cup CombineCalls
                \cup AppStateCalls \cup CategorizeCalls
    /\ ret = NoRet
    /\ mode = IF call.fn = "aggregate" THEN "wheel" ELSE "download"
    /\ missing = "none"
    /\ hash_checking = "None"
    /\ concurrency = 1
    /\ Fresh
    /\ GuiFresh

HelperNext ==
    \/ ApplyZipDirectory
    \/ ApplyPackWheel
    \/ ApplyAggregate
    \/ ApplyCombine
    \/ RepackZipDirectory
    \/ RepackPackWheel
    \/ ApplyAppState
    \/ ApplyCategorize

HelperSpec == HelperInit /\ [][HelperNext]_vars

\* --------------------------------------------- package browser: handlers
\* Duration::from_secs(300): how long a cache entry is fresh.
Ttl == 300

\* Everything outside the package browser.
cliVars == <<inputs, fnVars, handed, run, pc, result, errKind, work, hashVars,
             graphVars, prepVars, prepared, outVars, fsVars, first>>

\* str::to_lowercase and str::eq_ignore_ascii_case.
ToLowercase(s) == [i \in 1..Len(s) |-> IF s[i] = "A" THEN "a" ELSE s[i]]
EqIgnoreAsciiCase(a, b) == ToLowercase(a) = ToLowercase(b)

\* str::trim: leading and trailing white space is dropped.
RECURSIVE TrimStart(_)
TrimStart(s) == IF s # <<>> /\ Head(s) = " " THEN TrimStart(Tail(s)) ELSE s
RECURSIVE TrimEnd(_)
TrimEnd(s) ==
    IF s # <<>> /\ s[Len(s)] = " " THEN TrimEnd(SubSeq(s, 1, Len(s) - 1)) ELSE s
Trim(s) == TrimEnd(TrimStart(s))

\* PackageCache::get(name) at time t.
CacheGet(cache, name, t) ==
    LET key == ToLowercase(name) IN
    IF key \in DOMAIN cache /\ t < cache[key].expires_at
    THEN Some(cache[key].package)
    ELSE None

\* PackageCache::insert(name, package) at time t.
CacheInsert(cache, name, package, t) ==
    LET key == ToLowercase(name) IN
    [k \in DOMAIN cache \cup {key} |->
        IF k = key THEN [package |-> package, expires_at |-> t + Ttl] ELSE cache[k]]

\* PackageCache::cleanup() at time t.
CacheCleanup(cache, t) ==
    [k \in {j \in DOMAIN cache : cache[j].expires_at > t} |-> cache[k]]

\* PyPiPackageInfo::into_package: the name as PyPI spells it, a latest
\* version, and no installed version.
IntoPackage(name) ==
    [name |-> name, latest_version |-> Some(1), installed_version |-> None]

\* PackagesView::get_installed_version and is_package_installed.
GetInstalledVersion(v, package_name) ==
    LET hits == {i \in 1..Len(v.installed_packages) :
                    EqIgnoreAsciiCase(v.installed_packages[i].name, package_name)} IN
    IF hits = {} THEN None
    ELSE v.installed_packages[CHOOSE i \in hits : \A j \in hits : i <= j].installed_version

IsPackageInstalled(v, package_name) == GetInstalledVersion(v, package_name) # None

\* "Update installed status" of perform_search.
UpdateInstalledStatus(v, package) ==
    LET installed_version == GetInstalledVersion(v, package.name) IN
    IF installed_version # None
    THEN [package EXCEPT !.installed_version = installed_version]
    ELSE package

\* handle_key_down for every key but "enter".
HandleKeyDown(v, key) ==
    CASE key = "backspace" ->
            [v EXCEPT !.search_query =
                          IF @ = <<>> THEN @ ELSE SubSeq(@, 1, Len(@) - 1),
                      !.search_error = None,
                      !.success_message = None]
      [] key = "escape" ->
            [v EXCEPT !.search_query = <<>>,
                      !.search_results = <<>>,
                      !.search_error = None,
                      !.success_message = None]
      [] key \in Chars ->
            [v EXCEPT !.search_query = Append(@, key),
                      !.search_error = None,
                      !.success_message = None]
      [] OTHER -> v

\* Mutant: the loading state keeps the success message.
SetLoadingKeepsMessage(v) ==
    [v EXCEPT !.is_searching = TRUE,
              !.search_error = None,
              !.search_results = <<>>]

\* "Set loading state" of perform_search.
SetLoading(v) ==
    [v EXCEPT !.is_searching = TRUE,
              !.search_error = None,
              !.success_message = None,
              !.search_results = <<>>]

\* perform_search up to the call of loader.lookup: the view, and the query
\* sent to PyPI if one is sent.
PerformSearchBegin(v, t, loader_ok) ==
    LET query == Trim(v.search_query)
        cached == CacheGet(v.cache, query, t) IN
    IF query = <<>> THEN [view |-> v, request |-> None]
    ELSE IF cached # None
    THEN [view |-> [v EXCEPT !.search_results = <<UpdateInstalledStatus(v, cached[1])>>,
                             !.search_error = None,
                             !.is_searching = FALSE],
          request |-> None]
    ELSE IF ~loader_ok
    THEN [view |-> [SetLoading(v) EXCEPT !.is_searching = FALSE,
                                         !.search_error = Some("ClientInit")],
          request |-> None]
    ELSE [view |-> SetLoading(v), request |-> Some(query)]

\* GET /pypi/{name}/json finds a project whatever the case of the letters
\* of the name, and with "-" and "_" taken for one another.
Normalize(name) ==
    [i \in 1..Len(name) |->
        IF name[i] = "A" THEN "a" ELSE IF name[i] = "_" THEN "-" ELSE name[i]]

\* What loader.lookup(query) may return: the project of that name, under
\* the name PyPI spells it, or one of the errors.
ValidName(name) == name # <<>> /\ \A i \in 1..Len(name) : name[i] \in Chars
LookupResults(query) ==
    IF ~ValidName(Trim(query)) THEN {[k |-> "InvalidName", name |-> Trim(query)]}
    ELSE {[k |-> "NotFound", name |-> Trim(query)], [k |-> "Network", name |-> <<>>]}
         \cup {[k |-> "Ok", name |-> n] :
                  n \in {m \in PyPiNames : Normalize(m) = Normalize(Trim(query))}}

\* perform_search from the return of loader.lookup at time t.
PerformSearchEnd(v, res, t) ==
    IF res.k = "Ok"
    THEN LET package == IntoPackage(res.name)
             cached == [v EXCEPT !.cache =
                           CacheCleanup(CacheInsert(@, package.name, package, t), t)] IN
         [cached EXCEPT !.search_results = <<UpdateInstalledStatus(cached, package)>>,
                        !.search_error = None,
                        !.is_searching = FALSE]
    ELSE [v EXCEPT !.search_results = <<>>,
                   !.search_error = Some(res.k),
                   !.is_searching = FALSE]

\* Mutant: an operation is started whatever the current one.
OperationActiveNever(v) == FALSE

\* if self.current_operation.is_some() { return; }
OperationActive(v) == v.current_operation # None

\* install_package / remove_package up to cmd.output(): the view, and the
\* command that is run if one is run.
StartOperation(v, op, verb, package_name) ==
    IF OperationActive(v) THEN [view |-> v, run |-> NoCommand]
    ELSE [view |-> [v EXCEPT !.current_operation =
                                 Some([op |-> op, name |-> package_name]),
                             !.search_error = None,
                             !.success_message = None],
          run |-> [verb |-> verb, name |-> package_name]]

InstallPackageBegin(v, package_name) ==
    StartOperation(v, "Installing", "add", package_name)

RemovePackageBegin(v, package_name) ==
    StartOperation(v, "Removing", "remove", package_name)

\* How cmd.output() may end: the command succeeded, it failed, or it could
\* not be started.
CommandResults == {"success", "failure", "not_started"}

\* self.current_operation = None at the end of install_package / remove_package.
OperationDone(v, out) == [v EXCEPT !.current_operation = None]

\* install_package from the return of cmd.output().
InstallPackageEnd(v, package_name, out) ==
    OperationDone(
        CASE out = "success" ->
                [v EXCEPT !.success_message = Some("installed"),
                          !.search_error = None,
                          !.search_results =
                              [i \in 1..Len(v.search_results) |->
                                  LET pkg == v.search_results[i] IN
                                  IF EqIgnoreAsciiCase(pkg.name, package_name)
                                  THEN [pkg EXCEPT !.installed_version = pkg.latest_version]
                                  ELSE pkg]]
          [] out = "failure" ->
                [v EXCEPT !.search_error = Some("InstallFailed"),
                          !.success_message = None]
          [] OTHER ->
                [v EXCEPT !.search_error = Some("InstallNotRun"),
                          !.success_message = None],
        out)

\* Vec::retain on the installed packages.
Retain(packages, package_name) ==
    SelectSeq(packages, LAMBDA p : ~EqIgnoreAsciiCase(p.name, package_name))

\* remove_package from the return of cmd.output().
RemovePackageEnd(v, package_name, out) ==
    OperationDone(
        CASE out = "success" ->
                [v EXCEPT !.success_message = Some("removed"),
                          !.search_error = None,
                          !.search_results =
                              [i \in 1..Len(v.search_results) |->
                                  LET pkg == v.search_results[i] IN
                                  IF EqIgnoreAsciiCase(pkg.name, package_name)
                                  THEN [pkg EXCEPT !.installed_version = None]
                                  ELSE pkg],
                          !.installed_packages = Retain(v.installed_packages, package_name)]
          [] out = "failure" ->
                [v EXCEPT !.search_error = Some("RemoveFailed"),
                          !.success_message = None]
          [] OTHER ->
                [v EXCEPT !.search_error = Some("RemoveNotRun"),
                          !.success_message = None],
        out)

\* is_operating_on(package_name).
IsOperatingOn(v, package_name) ==
    /\ v.current_operation # None
    /\ EqIgnoreAsciiCase(v.current_operation[1].name, package_name)

\* The packages that have a card: get_popular_packages or the search results.
PopularNames == {<<"a">>}
Rendered(v) ==
    IF v.is_searching \/ v.search_error # None THEN {}
    ELSE IF v.search_results = <<>> /\ v.search_query = <<>> THEN PopularNames
    ELSE {v.search_results[i].name : i \in 1..Len(v.search_results)}

\* The handlers run on the one thread of the window: none starts while
\* another waits for PyPI or for a child process.
Idle == lookup.state # "pending" /\ command = NoCommand

\* perform_search is called; a request to PyPI stays pending if one is sent.
CallPerformSearch ==
    \E loader_ok \in BOOLEAN :
        LET r == PerformSearchBegin(view, now, loader_ok) IN
        /\ view' = r.view
        /\ lookup' = IF r.request = None THEN lookup
                     ELSE [query |-> r.request[1], state |-> "pending"]
        /\ UNCHANGED <<now, command>>

\* A key is pressed in the search input.
KeyDown ==
    /\ Idle
    /\ \E key \in Keys :
        /\ key \in Chars => Len(view.search_query) < MaxQuery
        /\ IF key = "enter"
           THEN CallPerformSearch
           ELSE /\ view' = HandleKeyDown(view, key)
                /\ UNCHANGED <<now, lookup, command>>
    /\ UNCHANGED cliVars

\* The search button is clicked.
ClickSearch ==
    /\ Idle
    /\ IF ~view.is_searching THEN CallPerformSearch ELSE UNCHANGED guiVars
    /\ UNCHANGED cliVars

\* loader.lookup returns.
LookupReturns ==
    /\ lookup.state = "pending"
    /\ \E res \in LookupResults(lookup.query) :
        /\ view' = PerformSearchEnd(view, res, now)
    /\ lookup' = NoLookup
    /\ UNCHANGED <<now, command>>
    /\ UNCHANGED cliVars

\* The button of a package card is clicked.
ClickPackage ==
    /\ Idle
    /\ \E name \in Rendered(view) :
        LET r == IF view.current_operation # None THEN [view |-> view, run |-> NoCommand]
                 ELSE IF IsPackageInstalled(view, name)
                 THEN RemovePackageBegin(view, name)
                 ELSE InstallPackageBegin(view, name) IN
        /\ view' = r.view
        /\ command' = r.run
    /\ UNCHANGED <<now, lookup>>
    /\ UNCHANGED cliVars

\* cmd.output() returns.
CommandReturns ==
    /\ command # NoCommand
    /\ \E out \in CommandResults :
        view' = IF command.verb = "add"
                THEN InstallPackageEnd(view, command.name, out)
                ELSE RemovePackageEnd(view, command.name, out)
    /\ command' = NoCommand
    /\ UNCHANGED <<now, lookup>>
    /\ UNCHANGED cliVars

\* set_installed_packages(packages).
InstalledChoices ==
    {<<>>} \cup {<<[name |-> n, latest_version |-> None, installed_version |-> Some(1)]>> :
                    n \in PopularNames}
SetInstalledPackages ==
    /\ Idle
    /\ \E packages \in InstalledChoices :
        view' = [view EXCEPT !.installed_packages = packages]
    /\ UNCHANGED <<now, lookup, command>>
    /\ UNCHANGED cliVars

\* Time passes, half a Ttl at a time.
Tick ==
    /\ now < MaxTicks * (Ttl \div 2)
    /\ now' = now + Ttl \div 2
    /\ UNCHANGED <<view, lookup, command>>
    /\ UNCHANGED cliVars

GuiInit ==
    /\ mode = "download"
    /\ missing = "none"
    /\ hash_checking = "None"
    /\ concurrency = 1
    /\ Fresh
    /\ call = NoCall
    /\ ret = NoRet
    /\ GuiFresh

GuiNext ==
    \/ KeyDown
    \/ ClickSearch
    \/ LookupReturns
    \/ ClickPackage
    \/ CommandReturns
    \/ SetInstalledPackages
    \/ Tick

GuiSpec == GuiInit /\ [][GuiNext]_vars

\* ------------------------------------------------------------------ reading
\* The per-artifact lines printed so far, and the filenames they name.
OutcomeLines == SelectSeq(stderr, LAMBDA l : l.k \in {"Downloaded", "Skipping", "Built"})
ReportedFiles == [i \in 1..Len(OutcomeLines) |-> OutcomeLines[i].f]
LinesOf(k) == {i \in 1..Len(stderr) : stderr[i].k = k}
LinesFor(f) == {i \in 1..Len(stderr) : stderr[i].f = f /\ stderr[i].k \in {"Downloaded", "Skipping"}}
PreparedFiles == {Filename(prepared[i]) : i \in 1..Len(prepared)}
InstallableFiles == {Filename(d) : d \in {e \in Dists : resolution[e] = "Installable"}}
Succeeded == pc = "done" /\ result = "Success"
ExistedAtStart(f) == disk0[f].st # "absent"

\* Name, kind and compression method of the entries of an archive.
EntryShapes(entries) ==
    {[name |-> entries[i].name, kind |-> entries[i].kind, method |-> entries[i].method] :
        i \in 1..Len(entries)}

\* Where the index of URL u stands in a list of indexes (0: nowhere).
IndexPosition(list, u) ==
    IF \E i \in 1..Len(list) : list[i].url = u
    THEN CHOOSE i \in 1..Len(list) : list[i].url = u
    ELSE 0

UrlsOf(list) == {list[i].url : i \in 1..Len(list)}

\* The state of the artifact of distribution d in this run.  The loop body
\* of the materialization is one step, so that Materializing is passed
\* through within the step that leaves Prepared.
ArtifactState(d) ==
    LET at == {i \in 1..Len(prepared) : prepared[i] = d} IN
    CASE ~resolved \/ resolution[d] # "Installable" -> "None"
      [] task[d] = "idle" -> "Resolved"
      [] task[d] \in {"issued", "owner", "waiting", "running"} -> "Preparing"
      [] task[d] = "err" -> "Failed"
      [] at = {} -> "Prepared"
      [] \E i \in at : i < idx -> "Materialized"
      [] errKind = "PackagingError" /\ idx \in at -> "Failed"
      [] OTHER -> "Prepared"

\* The transitions of the state machine of one artifact.
ArtifactEdges ==
    { <<"None", "Resolved">>, <<"Resolved", "Preparing">>,
      <<"Preparing", "Prepared">>, <<"Preparing", "Failed">>,
      <<"Prepared", "Materialized">>, <<"Prepared", "Failed">> }

\* The error lines that attribute a failure to distribution d.
ErrorLines(d) == {i \in 1..Len(stderr) : stderr[i] = Line("error", Filename(d), 0)}

\* C1: download mode is idempotent.  A file that exists at the destination
\* of a prepared artifact is never written, gets a Skipping line and no
\* Downloaded line; a second invocation after a successful one leaves the
\* output directory as it was, counts 0 and reports only Skipping lines.
C1_DownloadIdempotent ==
    mode = "download" =>
        /\ \A f \in FileNames : ExistedAtStart(f) => disk[f] = disk0[f]
        /\ Succeeded =>
              \A f \in PreparedFiles : ExistedAtStart(f) =>
                  /\ Line("Skipping", f, 0) \in Range(stderr)
                  /\ Line("Downloaded", f, 0) \notin Range(stderr)
        /\ (run = 2 /\ first.result = "Success") =>
              /\ disk = first.disk
              /\ downloaded_count = 0
              /\ LinesOf("Downloaded") = {}
              /\ Succeeded =>
                    /\ \A f \in PreparedFiles : Line("Skipping", f, 0) \in Range(stderr)
                    /\ \A i \in LinesOf("Summary") : stderr[i].n = 0

C1_Witness ==
    /\ mode = "download"
    /\ run = 2
    /\ first.result = "Success"
    /\ Succeeded
    /\ Len(prepared) >= 2
    /\ Cardinality(LinesOf("Skipping")) = Len(prepared)
    /\ Line("Summary", <<>>, 0) \in Range(stderr)

\* C2: in both modes the per-artifact filenames are reported in
\* lexicographically sorted order, whatever the order in which the
\* preparation tasks completed.
C2_ReportSorted == IsSorted(ReportedFiles)

C2_Witness ==
    /\ Succeeded
    /\ Len(ReportedFiles) >= 2
    /\ Len(ReportedFiles) = Len(completed)
    /\ ~IsSorted([i \in 1..Len(completed) |-> Filename(completed[i])])

\* C3: in download mode every prepared artifact gets exactly one outcome line
\* (Downloaded or Skipping); the running count, and the count printed in the
\* summary, is the number of Downloaded lines, so that Downloaded + Skipping
\* = number of prepared artifacts.
C3_DownloadCount ==
    mode = "download" =>
        /\ downloaded_count = Cardinality(LinesOf("Downloaded"))
        /\ \A i \in LinesOf("Summary") : stderr[i].n = Cardinality(LinesOf("Downloaded"))
        /\ (Succeeded /\ distributions # <<>>) =>
              /\ Cardinality(LinesOf("Summary")) = 1
              /\ \A f \in PreparedFiles : Cardinality(LinesFor(f)) = 1
              /\ Cardinality(LinesOf("Downloaded")) + Cardinality(LinesOf("Skipping"))
                    = Len(prepared)

C3_Witness ==
    /\ mode = "download"
    /\ Succeeded
    /\ Cardinality(LinesOf("Downloaded")) >= 1
    /\ Cardinality(LinesOf("Skipping")) >= 1

\* C4: in build mode every prepared artifact is packed with no existence
\* check: its file is written by this run even when it was there before,
\* every artifact gets a Built line, and the summary counts all of them.
C4_BuildOverwrites ==
    mode = "wheel" =>
        /\ \A i \in 1..Len(prepared) :
              i < idx => disk[Filename(prepared[i])] = [st |-> "full", by |-> run]
        /\ Succeeded =>
              /\ idx = Len(prepared) + 1
              /\ Len(built_wheels) = Len(prepared)
              /\ Range(ReportedFiles) = PreparedFiles
              /\ Cardinality(LinesOf("Built")) = Len(prepared)
              /\ Line("Summary", <<>>, Len(prepared)) \in Range(stderr)

C4_Witness ==
    /\ mode = "wheel"
    /\ run = 2
    /\ Succeeded
    /\ Len(prepared) >= 2
    /\ \E f \in PreparedFiles : disk0[f].st = "full" /\ disk[f] # disk0[f]
    /\ \E f \in PreparedFiles : disk0[f].st = "absent"

\* C5: when a listed requirements, constraints, overrides or
\* build-constraints file does not exist, the run ends with an input error
\* (exit code 2) and nothing was attempted: no network or build work, no
\* resolution, no preparation, and the output directory is neither created
\* nor written.
C5_MissingInput ==
    missing # "none" =>
        /\ pc \in {"read_requirements", "read_constraints", "done"}
        /\ work = {}
        /\ ~resolved
        /\ distributions = <<>>
        /\ task = NoTasks
        /\ prepared = <<>>
        /\ ~dirExists
        /\ disk = disk0
        /\ pc = "done" => (result = "Err" /\ errKind = "InputError" /\ ExitCode = 2)

C5_Witness ==
    /\ missing = "build_constraints"
    /\ mode = "wheel"
    /\ pc = "done"
    /\ errKind = "InputError"

\* C6: the artifacts a run prepares, writes or reports are distributions of
\* the graph that are installable, and a successful run reports exactly
\* those: installed distributions and distributions outside the graph are
\* never prepared or materialized.
C6_MaterializedSet ==
    /\ \A d \in Dists : task[d] # "idle" => resolution[d] = "Installable"
    /\ \A f \in FileNames : disk[f] # disk0[f] => f \in InstallableFiles
    /\ Range(ReportedFiles) \subseteq InstallableFiles
    /\ Succeeded => Range(ReportedFiles) = InstallableFiles

C6_Witness ==
    /\ Succeeded
    /\ \E d \in Dists : resolution[d] = "Installed"
    /\ \E d \in Dists : resolution[d] = "Installable"
    /\ \E d \in Dists : resolution[d] = "absent"
    /\ Range(ReportedFiles) # {}

C8_NoCancellation ==
    ("prepare" \in work /\ pc # "preparing") =>
        /\ \A r \in Reqs : task[r] \in {"idle", "ok", "err"}
        /\ \A i \in 1..Len(distributions) : task[distributions[i]] \in {"ok", "err"}
        /\ errors # <<>> =>
              /\ result = "Err"
              /\ errKind = "PreparationError"
              /\ stderr[Len(stderr)] = Line("error", Filename(Head(errors)), 0)
        /\ errors = <<>> =>
              /\ errKind # "PreparationError"
              /\ Range(prepared) = Range(distributions)

C8_Witness ==
    /\ errKind = "PreparationError"
    /\ Len(errors) >= 2
    /\ Len(completed) >= 1

\* C9: the number of fetch / build operations executing at the same time
\* never exceeds the configured concurrency limit.
C9_ConcurrencyLimit == Running <= concurrency

C9_Witness ==
    /\ concurrency >= 2
    /\ Running = concurrency
    /\ \E r \in Reqs : task[r] = "owner"

\* C10: the hash strategy for build-time dependencies is never Require: it
\* is None when no global checking mode is given and Verify when the global
\* mode is Require or Verify.
C10_BuildHasherNeverRequire ==
    /\ build_hasher # "Require"
    /\ build_hasher # "unset" =>
          build_hasher = IF hash_checking = "None" THEN "None" ELSE "Verify"

C10_Witness ==
    /\ hash_checking = "Require"
    /\ build_hasher = "Verify"
    /\ hasher = "Require"

\* C11: when the global hash-checking mode is absent, the hash strategy
\* handed to the resolver and to the preparer is None and no package is
\* hash-checked, whatever hashes the requirement sources declare; when the
\* mode is present the strategy carries exactly that mode.  The strategy is
\* built once in a run: once set it does not change, and the consumers are
\* constructed with the strategy that was built.
C11_HashStrategy ==
    LET C11_StrategyOf == IF hash_checking = "None" THEN "None" ELSE hash_checking IN
    /\ hasher \in {"unset", C11_StrategyOf}
    /\ \A c \in DOMAIN handed :
          /\ handed[c] \in {"unset", hasher}
          /\ hash_checking = "None" => ~HashChecked(handed[c])
          /\ (hash_checking # "None" /\ handed[c] # "unset") => HashChecked(handed[c])
    /\ (hasher = "unset") <=>
          (\/ Position(mode, IF pc = "preparing" THEN "prepare" ELSE pc)
                 <= Position(mode, "hasher")
           \/ errKind \in {"InputError", "HashError"})
    /\ "resolve" \in work => handed["resolver"] = C11_StrategyOf
    /\ "prepare" \in work => handed["preparer"] = C11_StrategyOf

C11_Witness ==
    /\ hash_checking = "None"
    /\ Succeeded
    /\ Len(prepared) >= 1
    /\ handed["resolver"] = "None"
    /\ handed["preparer"] = "None"

\* C12 (as stated): given Require mode and a requirement that declares no
\* hashes, the run fails before any network or build work begins, interpreter
\* discovery / download included.
C12_FailsBeforeAnyWork == errKind = "HashError" => work = {}

\* C12 (amended): given Require mode and a requirement that declares no
\* hashes, the run fails after interpreter discovery / download (and, in
\* build mode, after the output directory was created) and before index
\* fetching, resolution and preparation: no strategy is handed to a consumer,
\* no task is issued and nothing is written.
C12_FailsBeforeIndexWork ==
    errKind = "HashError" =>
        /\ hash_checking = "Require"
        /\ result = "Err"
        /\ work = {"python"}
        /\ dirExists = (mode = "wheel")
        /\ hasher = "unset"
        /\ handed = NoHanded
        /\ ~resolved
        /\ task = NoTasks
        /\ disk = disk0
        /\ stderr = <<>>

C12_Witness ==
    /\ errKind = "HashError"
    /\ pc = "done"
    /\ mode = "wheel"
    /\ "python" \in work

\* C13: the phases of one run are strictly ordered.  No preparation task is
\* issued before a resolution graph exists; nothing is written to the output
\* directory and no artifact is reported before every preparation task has
\* settled; and materialization handles the artifacts one at a time: a step
\* writes at most one file, the file of the artifact at the loop position,
\* and the loop position advances by one.
C13_PhasesOrdered ==
    [][run' = run =>
        /\ ((\E r \in Reqs : task'[r] # "idle") \/ "prepare" \in work') =>
              (resolved' /\ "resolve" \in work')
        /\ (disk' # disk0' \/ idx' > 1 \/ OutcomeLines' # <<>> \/ built_wheels' # <<>>) =>
              /\ AllSettled'
              /\ "prepare" \in work'
              /\ Position(mode, IF pc' = "preparing" THEN "prepare" ELSE pc')
                     > Position(mode, "prepare")
              /\ Len(prepared') = Len(distributions')
        /\ Cardinality({f \in FileNames : disk'[f] # disk[f]}) <= 1
        /\ idx' \in {idx, idx + 1}
        /\ \A f \in FileNames : disk'[f] # disk[f] =>
              /\ pc = "materialize"
              /\ idx <= Len(prepared)
              /\ f = Filename(prepared[idx])
     ]_vars

C13_Witness ==
    /\ pc = "materialize"
    /\ idx = 3
    /\ Len(prepared) = 3
    /\ Cardinality({f \in FileNames : disk[f] # disk0[f]}) = 2
    /\ run = 1
    /\ completed # <<1, 2, 3>>

\* C14 (as stated): each artifact follows Resolved -> Preparing ->
\* {Prepared | Failed} and Prepared -> Materializing -> {Materialized |
\* Failed}; it never moves to an earlier state, never leaves Failed, and when
\* the run has ended the failure of every artifact in Failed has been
\* reported exactly once.
C14_EveryFailureReportedOnce ==
    [][run' = run =>
        \A d \in Dists :
          /\ ArtifactState(d)' # ArtifactState(d) =>
                <<ArtifactState(d), ArtifactState(d)'>> \in ArtifactEdges
          /\ (pc' = "done" /\ ArtifactState(d)' = "Failed") =>
                Cardinality(ErrorLines(d)') = 1
     ]_vars

\* C14 (amended): each artifact follows the two chains, never moves to an
\* earlier state and never leaves Failed; an artifact's failure is reported
\* at most once, and a run that ends with a failed artifact reports exactly
\* one failure: that of the artifact that failed first.  An artifact whose
\* preparation failed after another one's is in Failed and is not reported.
C14_ArtifactStates ==
    [][run' = run =>
        /\ \A d \in Dists :
              /\ ArtifactState(d)' # ArtifactState(d) =>
                    <<ArtifactState(d), ArtifactState(d)'>> \in ArtifactEdges
              /\ Cardinality(ErrorLines(d)') <= 1
              /\ ErrorLines(d)' # {} => ArtifactState(d)' = "Failed"
        /\ Cardinality(LinesOf("error")') <= 1
        /\ (pc' = "done" /\ \E d \in Dists : ArtifactState(d)' = "Failed") =>
              /\ Cardinality(LinesOf("error")') = 1
              /\ \A d \in Dists : ErrorLines(d)' # {} =>
                    /\ errKind' = "PreparationError" => d = Head(errors')
                    /\ errKind' = "PackagingError" => d = prepared'[idx']
     ]_vars

C14_Witness ==
    /\ pc = "done"
    /\ errKind = "PreparationError"
    /\ Len(errors) = 2
    /\ ArtifactState(errors[1]) = "Failed"
    /\ ArtifactState(errors[2]) = "Failed"
    /\ ErrorLines(errors[1]) # {}
    /\ ErrorLines(errors[2]) = {}
    /\ \E d \in Dists : ArtifactState(d) = "Prepared"

\* C15: when the resolver returns a resolution error, the run ends with a
\* non-zero outcome, ExitStatus::Failure after the diagnostic was rendered or
\* the propagated error, without preparing or materializing any artifact and
\* without printing a summary line.
C15_ResolutionError ==
    errKind = "ResolutionError" =>
        /\ pc = "done"
        /\ result \in {"Failure", "Err"}
        /\ ExitCode \in {1, 2}
        /\ result = "Failure" => stderr = <<Line("diagnostic", <<>>, 0)>>
        /\ result = "Err" => stderr = <<>>
        /\ ~resolved
        /\ "prepare" \notin work
        /\ handed["preparer"] = "unset"
        /\ task = NoTasks
        /\ distributions = <<>> /\ prepared = <<>>
        /\ idx = 1
        /\ disk = disk0
        /\ LinesOf("Summary") = {}

C15_Witness ==
    /\ errKind = "ResolutionError"
    /\ result = "Failure"
    /\ mode = "wheel"
    /\ dirExists
    /\ Len(stderr) = 1

\* C16: when materializing one artifact fails with a packaging error, the run
\* ends as a failure without a summary line; the files of the artifacts
\* handled before it are on disk (those the run wrote are complete), and the
\* files of the artifacts after it are untouched.  A re-invocation skips
\* every file the failed run left (download mode) or writes every file anew
\* (build mode).
C16_PartialFailure ==
    /\ errKind = "PackagingError" =>
          /\ pc = "done"
          /\ result = "Err"
          /\ ExitCode = 2
          /\ LinesOf("Summary") = {}
          /\ idx <= Len(prepared)
          /\ \A i \in 1..Len(prepared) :
                LET f == Filename(prepared[i]) IN
                /\ i < idx =>
                      /\ Exists(f)
                      /\ (mode = "wheel" \/ ~ExistedAtStart(f)) => disk[f] = File("full")
                      /\ (mode = "download" /\ ExistedAtStart(f)) => disk[f] = disk0[f]
                /\ i = idx => disk[f] \in {disk0[f], File("partial")}
                /\ i > idx => disk[f] = disk0[f]
    /\ (run = 2 /\ first.errKind = "PackagingError") =>
          /\ mode = "download" =>
                \A f \in FileNames : first.disk[f].st # "absent" =>
                    /\ disk[f] = first.disk[f]
                    /\ Line("Downloaded", f, 0) \notin Range(stderr)
                    /\ (Succeeded /\ f \in PreparedFiles) =>
                          Line("Skipping", f, 0) \in Range(stderr)
          /\ mode = "wheel" =>
                \A i \in 1..Len(prepared) :
                    (i < idx /\ pc \in {"materialize", "sort", "summary", "done"}) =>
                        disk[Filename(prepared[i])] = File("full")

C16_Witness ==
    /\ run = 2
    /\ first.errKind = "PackagingError"
    /\ mode = "download"
    /\ Succeeded
    /\ \E f \in PreparedFiles : first.disk[f] = [st |-> "full", by |-> 1]
    /\ \E f \in PreparedFiles : first.disk[f] = [st |-> "partial", by |-> 1]
    /\ LinesOf("Skipping") # {}
    /\ LinesOf("Downloaded") # {}

C18_Aggregated ==
    (call.fn = "aggregate" /\ ret["aggregate"].done) =>
        LET e == call.explicit
            w == call.workspace
            l == ret["aggregate"].list
        IN /\ Len(l) = Len(e) + Len(w)
           /\ \A i \in 1..Len(e) : l[i] = e[i]
           /\ \A j \in 1..Len(w) :
                 /\ l[Len(e) + j].requirement = w[j]
                 /\ ~l[Len(e) + j].hashes

C18_Witness ==
    /\ call.fn = "aggregate"
    /\ ret["aggregate"].done
    /\ call.category = "build_constraints"
    /\ call.explicit = <<[requirement |-> 2, hashes |-> TRUE], [requirement |-> 1, hashes |-> FALSE]>>
    /\ call.workspace = <<2, 2>>
    /\ Len(ret["aggregate"].list) = 4

C20_SameRule ==
    (call.fn = "pack" /\ ret["zip_directory"].done /\ ret["pack_wheel"].done) =>
        /\ ret["zip_directory"].ok = ret["pack_wheel"].ok
        /\ ret["zip_directory"].ok =>
              /\ EntryShapes(ret["zip_directory"].entries) = EntryShapes(ret["pack_wheel"].entries)
              /\ \A i \in 1..Len(ret["pack_wheel"].entries) :
                    LET e == ret["pack_wheel"].entries[i] IN
                    /\ e.name # <<>>
                    /\ e.kind = "dir" <=> e.name[Len(e.name)] = Sep
                    /\ e.kind = "file" => e.method = "deflated"
                    /\ e.perm = UnixPermissions

\* C21: packing is a round trip on the entry set.  An archive that
\* zip_directory or pack_wheel produced never holds the root as an entry and
\* holds a directory entry for every directory of the source, empty or not;
\* unpacking it and packing the result again by the same function succeeds
\* and yields the same entry names with the same kinds.
C21_RoundTrip ==
    call.fn = "pack" =>
        \A f \in {"zip_directory", "pack_wheel"} :
            (ret[f].done /\ ret[f].ok) =>
                LET again == ret[IF f = "zip_directory" THEN "zip_directory_again"
                                                       ELSE "pack_wheel_again"]
                    made == ret[f].entries
                IN /\ \A i \in 1..Len(made) :
                         /\ ParsePath(made[i].name) # <<>>
                         /\ made[i].name # <<>>
                   /\ \A k \in 1..Len(call.src.walk) :
                         LET x == call.src.walk[k] IN
                         (x.t = "entry" /\ x.kind = "dir" /\ x.utf8) =>
                             \E i \in 1..Len(made) :
                                 /\ made[i].kind = "dir"
                                 /\ made[i].name = Append(PathStr(x.path), Sep)
                   /\ again.done =>
                         /\ again.ok
                         /\ EntryShapes(again.entries) = EntryShapes(made)

C21_Witness ==
    /\ call.fn = "pack"
    /\ call.src.walk = << [t |-> "entry", path |-> <<2>>, kind |-> "dir", utf8 |-> TRUE],
                          [t |-> "entry", path |-> <<1>>, kind |-> "file", utf8 |-> TRUE] >>
    /\ ret["zip_directory_again"].done
    /\ ret["pack_wheel_again"].done
    /\ Len(ret["zip_directory_again"].entries) = 2
    /\ ret["zip_directory_again"].entries # ret["zip_directory"].entries

C23_NothingToBuild ==
    (mode = "wheel" /\ resolved /\ InstallableFiles = {}) =>
        /\ errKind = "none"
        /\ result \in {"none", "Success"}
        /\ distributions = <<>> /\ prepared = <<>> /\ built_wheels = <<>>
        /\ task = NoTasks
        /\ fetches = NoFetches
        /\ disk = disk0
        /\ pc = "done" =>
              /\ result = "Success"
              /\ ExitCode = 0
              /\ Len(stderr) = 1
              /\ stderr[1].k = "Summary" /\ stderr[1].n = 0 /\ stderr[1].s = "s"
              /\ LinesOf("Built") = {}

C23_Witness ==
    /\ mode = "wheel"
    /\ run = 1
    /\ pc = "done"
    /\ resolved
    /\ resolution = [d \in Dists |-> IF d <= 2 THEN "Installed" ELSE "absent"]
    /\ stderr = <<Line("Summary", <<>>, 0)>>
    /\ "prepare" \in work

\* C24: in download mode a file is at an artifact's destination only if the
\* artifact was packed completely: a packing failure leaves no truncated
\* archive, and no run reports a truncated archive as
\* "Skipping ... (already exists)".
C24_NoTruncatedArchive ==
    mode = "download" =>
        \A f \in FileNames :
            /\ disk[f].st # "partial"
            /\ Line("Skipping", f, 0) \in Range(stderr) => disk[f].st = "full"

\* C30: in download mode a resolution without an installable distribution
\* prints "No packages to download" and returns success without starting
\* preparation, writing a file or printing a "Downloaded <count>" summary;
\* the output directory has been created all the same.
C30_NothingToDownload ==
    /\ (mode = "download" /\ Line("NoPackages", <<>>, 0) \in Range(stderr)) =>
          /\ pc = "done"
          /\ result = "Success"
          /\ ExitCode = 0
          /\ dirExists
          /\ "prepare" \notin work
          /\ task = NoTasks /\ fetches = NoFetches /\ prepared = <<>>
          /\ disk = disk0
          /\ stderr = <<Line("NoPackages", <<>>, 0)>>
          /\ LinesOf("Summary") = {} /\ LinesOf("Downloaded") = {}
    /\ (mode = "download" /\ resolved /\ InstallableFiles = {} /\ pc = "done") =>
          Line("NoPackages", <<>>, 0) \in Range(stderr)

C30_Witness ==
    /\ mode = "download"
    /\ run = 1
    /\ pc = "done"
    /\ resolved
    /\ resolution = [d \in Dists |-> IF d <= 2 THEN "Installed" ELSE "absent"]
    /\ stderr = <<Line("NoPackages", <<>>, 0)>>
    /\ dirExists
    /\ "resolve" \in work

\* C25: after a successful PyPI lookup for a query, a second perform_search
\* for the same query at any time before the Ttl has elapsed is answered
\* from the cache, without another request to PyPI, whatever name PyPI
\* returned the package under; and no cache entry is returned once the Ttl
\* has elapsed since it was stored.
C25_AnsweredFromCache ==
    [][ /\ (lookup.state = "pending" /\ lookup' = NoLookup /\ view'.search_results # <<>>) =>
              \A k \in 0..MaxTicks :
                  LET t == k * (Ttl \div 2) IN
                  (now <= t /\ t < now + Ttl) =>
                      /\ Trim(view'.search_query) = lookup.query
                      /\ PerformSearchBegin(view', t, TRUE).request = None
        /\ \A key \in DOMAIN view'.cache : view'.cache[key].expires_at <= now' + Ttl
      ]_vars

\* C26: at most one package operation is active at any time.  While
\* current_operation is set, exactly the one command of that operation runs,
\* and install_package and remove_package return at once, leaving the view as
\* it is and running no command; when no command runs (the install or the
\* remove has finished, however it ended) current_operation is None.
C26_OneOperation ==
    /\ command = NoCommand => view.current_operation = None
    /\ Idle => \A n \in PyPiNames \cup PopularNames : ~IsOperatingOn(view, n)
    /\ command # NoCommand =>
          /\ view.current_operation =
                 Some([op |-> IF command.verb = "add" THEN "Installing" ELSE "Removing",
                       name |-> command.name])
          /\ IsOperatingOn(view, command.name)
    /\ view.current_operation # None =>
          \A n \in PyPiNames \cup PopularNames :
              /\ InstallPackageBegin(view, n) = [view |-> view, run |-> NoCommand]
              /\ RemovePackageBegin(view, n) = [view |-> view, run |-> NoCommand]

C26_Witness ==
    /\ command = [verb |-> "remove", name |-> <<"A">>]
    /\ view.current_operation = Some([op |-> "Removing", name |-> <<"A">>])
    /\ IsOperatingOn(view, <<"a">>)
    /\ view.search_results # <<>>

\* C27: in the package browser search_error and success_message are never
\* both set, and is_searching is false whenever no handler is running.
C27_MessagesExclusive ==
    /\ ~(view.search_error # None /\ view.success_message # None)
    /\ Idle => ~view.is_searching
    /\ view.is_searching => lookup.state = "pending"

C27_Witness ==
    /\ Idle
    /\ view.success_message = Some("installed")
    /\ view.search_error = None
    /\ view.search_results # <<>>
    /\ view.search_results[1].installed_version = Some(1)
    /\ view.cache # PackageCacheNew

\* C28: the notifications of the application state are an ordered list.
\* add_notification appends at the end; remove_notification with an index in
\* range removes exactly the entry at that index and keeps the others in
\* their order; with an index out of range it changes nothing;
\* clear_notifications empties the list; and none of them changes the tab,
\* the project, the loading state or the dark mode.
C28_Notifications ==
    (call.fn = "app_state" /\ ret["app_state"].done) =>
        LET old == call.state.notifications
            new == ret["app_state"].state.notifications IN
        /\ call.op = "add_notification" =>
              /\ Len(new) = Len(old) + 1
              /\ new[Len(new)] = call.arg
              /\ SubSeq(new, 1, Len(old)) = old
        /\ (call.op = "remove_notification" /\ call.arg < Len(old)) =>
              /\ Len(new) = Len(old) - 1
              /\ \A i \in 1..Len(new) :
                    new[i] = IF i - 1 < call.arg THEN old[i] ELSE old[i + 1]
        /\ (call.op = "remove_notification" /\ call.arg >= Len(old)) => new = old
        /\ call.op = "clear_notifications" => new = <<>>
        /\ ret["app_state"].state.current_tab = call.state.current_tab
        /\ ret["app_state"].state.project = call.state.project
        /\ ret["app_state"].state.loading_state = call.state.loading_state
        /\ ret["app_state"].state.dark_mode = call.state.dark_mode

C28_Witness ==
    /\ call.fn = "app_state"
    /\ ret["app_state"].done
    /\ call.op = "remove_notification"
    /\ call.arg = 1
    /\ call.state.notifications = <<Notification("Info"), Notification("Success")>>
    /\ ret["app_state"].state.notifications = <<Notification("Info")>>
    /\ call.state.current_tab = "Packages"
    /\ ~call.state.dark_mode

\* The indices of the dependencies that categorize_and_enrich is to keep in
\* the list of the given kind: every production dependency, and the first
\* development dependency of each name.
KeptIndices(raw_deps, dev) ==
    {i \in 1..Len(raw_deps) :
        /\ IsDev(raw_deps[i].source) = dev
        /\ dev => \A j \in 1..(i - 1) :
                      IsDev(raw_deps[j].source) => raw_deps[j].name # raw_deps[i].name}

\* Whether the list holds the packages of the dependencies at the indices,
\* in the order of the input.
InInputOrder(list, raw_deps, version_map, indices) ==
    /\ Len(list) = Cardinality(indices)
    /\ \A k \in 1..Len(list) :
          \E i \in indices :
              /\ Cardinality({j \in indices : j < i}) = k - 1
              /\ list[k] = EnrichedPackage(raw_deps[i], version_map)

\* C29: categorize_and_enrich puts every dependency in the list of its
\* is_dev flag and in no other, in the order of the input; the development
\* dependencies are deduplicated by name, the first occurrence being kept,
\* so that no name is twice in the development list; the production
\* dependencies are never deduplicated.
C29_Categorized ==
    (call.fn = "categorize" /\ ret["categorize"].done) =>
        LET lists == ret["categorize"].lists
            raw_deps == call.raw_deps IN
        /\ InInputOrder(lists.dependencies, raw_deps, call.version_map,
                       KeptIndices(raw_deps, FALSE))
        /\ InInputOrder(lists.dev_dependencies, raw_deps, call.version_map,
                       KeptIndices(raw_deps, TRUE))
        /\ \A i \in 1..Len(lists.dependencies) : ~lists.dependencies[i].is_dev
        /\ \A i \in 1..Len(lists.dev_dependencies) : lists.dev_dependencies[i].is_dev
        /\ \A i, j \in 1..Len(lists.dev_dependencies) :
              lists.dev_dependencies[i].name = lists.dev_dependencies[j].name => i = j
        /\ Len(lists.dependencies) =
              Cardinality({i \in 1..Len(raw_deps) : ~IsDev(raw_deps[i].source)})

C29_Witness ==
    /\ call.fn = "categorize"
    /\ ret["categorize"].done
    /\ call.raw_deps = << [name |-> 1, source |-> [k |-> "ToolUvDevDependencies", n |-> ""]],
                          [name |-> 1, source |-> [k |-> "DependencyGroup", n |-> "dev"]] >>
    /\ Len(ret["categorize"].lists.dev_dependencies) = 1
    /\ ret["categorize"].lists.dev_dependencies[1].source_label = Some("tool.uv")
    /\ ret["categorize"].lists.dependencies = <<>>

====
